---- MODULE Spec2Model ----
(***************************************************************************)
(* A model of bloom.py: the salted SHA-1 hash family (makeHashFunc), the   *)
(* BloomFilter class (constructor, add, maycontain, clear, fprate and the  *)
(* pickle hooks __getstate__ / __setstate__).                              *)
(*                                                                         *)
(* Filter objects live in named slots; the numpy arrays they own live in   *)
(* a heap and are referred to by index, because __getstate__ hands out     *)
(* the array itself and not a copy of it.                                  *)
(***************************************************************************)
EXTENDS Integers, Sequences, FiniteSets, TLC

(***************************************************************************)
(* Bounds of the model.                                                    *)
(***************************************************************************)
\* the callers make at most MaxAdds calls of add in a run
MaxAdds == 3
\* number of calls of a hash function that the hash specification follows
MaxCalls == 2

\* the filter objects: F is built by the constructor, G is read back by pickle
Obj == {"F", "G"}
\* the strings the callers add and query
Items == {"d", "fw"}
\* the arguments the callers pass to the constructor
MArgs == {-32, 0, 31, 32, 64}
KArgs == {-1, 0, 1, 2}

(***************************************************************************)
(* Python's arbitrary-precision integers.  scale reaches 8^19 = 2^57 in    *)
(* the hash loop, so a non-negative Python integer is kept as its          *)
(* little-endian sequence of limbs in radix Radix; <<>> is 0.              *)
(***************************************************************************)
Radix == 1024

RECURSIVE BigFromInt(_)
BigFromInt(x) ==
    IF x = 0 THEN <<>> ELSE <<x % Radix>> \o BigFromInt(x \div Radix)

\* a * c for a big a and a small c, carry being the carry into the lowest limb
RECURSIVE BigMulCarry(_, _, _)
BigMulCarry(a, c, carry) ==
    IF a = <<>> THEN BigFromInt(carry)
    ELSE LET t == Head(a) * c + carry
         IN  <<t % Radix>> \o BigMulCarry(Tail(a), c, t \div Radix)

BigMul(a, c) == BigMulCarry(a, c, 0)

RECURSIVE BigAddCarry(_, _, _)
BigAddCarry(a, b, carry) ==
    IF a = <<>> /\ b = <<>> THEN BigFromInt(carry)
    ELSE LET x == IF a = <<>> THEN 0 ELSE Head(a)
             y == IF b = <<>> THEN 0 ELSE Head(b)
             t == x + y + carry
         IN  <<t % Radix>>
               \o BigAddCarry(IF a = <<>> THEN <<>> ELSE Tail(a),
                              IF b = <<>> THEN <<>> ELSE Tail(b),
                              t \div Radix)

BigAdd(a, b) == BigAddCarry(a, b, 0)

\* a % m for a big a and a small m > 0, by long division from the top limb
RECURSIVE BigModFrom(_, _, _, _)
BigModFrom(a, m, i, r) ==
    IF i = 0 THEN r ELSE BigModFrom(a, m, i - 1, (r * Radix + a[i]) % m)

BigMod(a, m) == BigModFrom(a, m, Len(a), 0)

(***************************************************************************)
(* makeHashFunc                                                            *)
(***************************************************************************)
\* str (salt) for the salts xrange (k) produces
str(i) == ToString(i)

\* hashlib.sha1: the 20-byte SHA-1 digests of the strings the model hashes
sha1(s) ==
    CASE s = "0d" -> <<219, 240, 165, 31, 89, 126, 22, 204, 189, 94,
                       171, 111, 184, 158, 194, 204, 21, 106, 212, 230>>
      [] s = "0fw" -> <<43, 10, 238, 230, 139, 71, 166, 115, 54, 253,
                       0, 4, 181, 171, 46, 79, 238, 251, 142, 140>>
      [] s = "1d" -> <<17, 162, 117, 112, 130, 66, 131, 17, 245, 135,
                       183, 102, 79, 169, 132, 3, 118, 19, 127, 128>>
      [] s = "1fw" -> <<87, 205, 78, 92, 59, 243, 150, 55, 113, 228,
                       206, 84, 166, 137, 118, 89, 65, 31, 249, 183>>

\* FoldStep with scale *= 256, the radix of a byte string
FoldStepRadix256(v, scale, b, m) ==
    [v     |-> BigMod(BigAdd(BigFromInt(v), BigMul(scale, b)), m),
     scale |-> BigMul(scale, 256)]

\* FoldStep with the remainder taken modulo m + 1
FoldStepModPlus1(v, scale, b, m) ==
    [v     |-> BigMod(BigAdd(BigFromInt(v), BigMul(scale, b)), m + 1),
     scale |-> BigMul(scale, 8)]

\* one turn of the loop "for b in digest": the new v and the new scale
FoldStep(v, scale, b, m) ==
    [v     |-> BigMod(BigAdd(BigFromInt(v), BigMul(scale, b)), m),
     scale |-> BigMul(scale, 8)]

\* the loop over digest[i..], entered with the locals v and scale
RECURSIVE FoldFrom(_, _, _, _, _)
FoldFrom(digest, m, i, v, scale) ==
    IF i > Len(digest) THEN v
    ELSE \* the step is bound through a one-element set so that it is computed
         \* before the next turn is entered (a LET would be unfolded lazily,
         \* twenty turns deep)
         CHOOSE r \in {FoldFrom(digest, m, i + 1, s.v, s.scale) :
                         s \in {FoldStep(v, scale, digest[i], m)}} : TRUE

\* v = 0; scale = 1; the loop; return v
Fold(digest, m) == FoldFrom(digest, m, 1, 0, BigFromInt(1))

\* the closure makeHashFunc returns: f with its free variables m and salt
makeHashFunc(m, salt) == [m |-> m, salt |-> str(salt)]

\* the closure applied to a value: digest of salt followed by value, folded
hashValue(m, salt, value) == Fold(sha1(salt \o value), m)

\* hashValue is pure: its values for the arguments of the model's calls are
\* computed once and looked up afterwards
Salts == {str(i) : i \in 0 .. 1}
Hashed == {t \in MArgs \X Salts \X Items : t[1] > 0}
hashMemo == {<<t, hashValue(t[1], t[2], t[3])>> : t \in Hashed}

f(func, value) ==
    LET t == <<func.m, func.salt, value>>
    IN  IF t \in Hashed
        THEN (CHOOSE p \in hashMemo : p[1] = t)[2]
        ELSE hashValue(func.m, func.salt, value)

(***************************************************************************)
(* The uint32 words of the numpy array.  A word is its 32 bits, bit 0 the  *)
(* least significant; the Python integer 1 << bit is held the same way.    *)
(***************************************************************************)
WordBits == 32

BitPos == 0 .. (WordBits - 1)

ZeroWord == [j \in BitPos |-> 0]

\* shl1 in a signed 32-bit integer, where 1 << 31 keeps no bit of the mask
shl1Signed(bit) == [j \in BitPos |-> IF j = bit /\ bit < 31 THEN 1 ELSE 0]

\* 1 << bit
shl1(bit) == [j \in BitPos |-> IF j = bit THEN 1 ELSE 0]

\* WordOr as a plain assignment, self.bits[dword] = (1 << bit)
WordAssign(w, x) == x

\* w | x
WordOr(w, x) == [j \in BitPos |-> IF w[j] = 1 \/ x[j] = 1 THEN 1 ELSE 0]

\* w & x
WordAnd(w, x) == [j \in BitPos |-> IF w[j] = 1 /\ x[j] = 1 THEN 1 ELSE 0]

\* N.zeros (size, dtype=N.uint32)
zeros(size) == [i \in 1 .. size |-> ZeroWord]

\* numpy indexing a[d]: valid for -len <= d < len, a negative d counts from
\* the end; the result is the position in the 1-based sequence
ValidIndex(a, d) == -Len(a) <= d /\ d < Len(a)
Position(a, d) == IF d >= 0 THEN d + 1 ELSE Len(a) + d + 1

(***************************************************************************)
(* State                                                                   *)
(***************************************************************************)
VARIABLES
    flt,      \* flt[o]: the fields of filter object o, NoFilter while unborn
    heap,     \* heap[r]: the words of the numpy array with reference r
    pickled,  \* the record (k, n, bits) last written by pickle, bits by value
    snap,     \* history: the filter pickled was taken from, as it was then
    last,     \* the call made last: arguments, return value, exception
    added,    \* history: added[o] = items passed to o.add since o's last clear
    adds,     \* history: adds[o] = number of add calls since o's last clear
    calls     \* history: the number of add calls made in the run

fvars == <<flt, heap, pickled, snap, last, added, adds, calls>>

\* one call of a closure f, followed turn by turn through its loop
VARIABLES
    hpc,      \* "idle" before a call, "loop" inside f, "done" once f returned
    hm,       \* the closure's m
    hdigest,  \* digest, as h.digest () returned it
    hi,       \* the position in digest the loop stands at
    hv,       \* the local v
    hscale,   \* the local scale
    hret,     \* the value returned
    hfirst,   \* history: m, digest and return value of the first call
    hcalls    \* history: the number of calls begun

hvars == <<hpc, hm, hdigest, hi, hv, hscale, hret, hfirst, hcalls>>

\* one call of optimalBloom, followed statement by statement
VARIABLES
    opc,        \* "idle", then the line the call stands at, "done" at its end
    ofprate,    \* the argument fprate
    onexpected, \* the argument nexpected
    oc,         \* the local m after line 175, int (N.ceil (m))
    om,         \* the local m after line 177
    ok,         \* the local k after line 180
    oret        \* the exception the call ended in, and the filter returned

ovars == <<opc, ofprate, onexpected, oc, om, ok, oret>>

\* one thread inside add and one thread inside maycontain, on the filter F
VARIABLES
    wpc,      \* the writer: "idle", "loop" inside add, "count" before n += 1
    witem,    \* the item the writer adds
    wi,       \* the hash function the writer's loop stands at
    wdone,    \* history: the items whose add has returned
    rpc,      \* the reader: "idle", "loop" inside maycontain, "done"
    ritem,    \* the item the reader asks for
    ri,       \* the hash function the reader's loop stands at
    rret,     \* the value the reader's maycontain returned
    rafter,   \* history: the reader's call began after add (ritem) returned
    rmid      \* history: the bit writes add (ritem) had made when it began

cvars == <<wpc, witem, wi, wdone, rpc, ritem, ri, rret, rafter, rmid>>

\* the counter n of one filter and the estimates fprate returned for it
VARIABLES
    qpc,      \* "none" before the filter is constructed, "live" after
    qn,       \* self.n
    qfp,      \* the last call of fprate: the n it read, the float returned
    qprev     \* history: the call of fprate before that one

qvars == <<qpc, qn, qfp, qprev>>

vars == <<fvars, hvars, ovars, cvars, qvars>>

NoFilter == [m |-> 0, k |-> 0, n |-> 0, bits |-> 0, funcs |-> <<>>]
NoState == [k |-> 0, n |-> 0, bits |-> <<>>]
NoSnap == [m |-> 0, k |-> 0, n |-> 0, bits |-> <<>>, funcs |-> <<>>, adds |-> 0]
NoFp == [k |-> 0, n |-> 0, m |-> 1]

Live(o) == flt[o] # NoFilter

\* the words of o's bit array
Words(o) == heap[flt[o].bits]

Call(op, o, item, m, k, ret, fp, err) ==
    [op |-> op, obj |-> o, item |-> item, m |-> m, k |-> k,
     ret |-> ret, fp |-> fp, err |-> err]
NoCall == Call("none", "", "", 0, 0, FALSE, NoFp, "none")

(***************************************************************************)
(* BloomFilter                                                             *)
(***************************************************************************)
\* makeFuncs with the salts 1..k
makeFuncsFrom1(m, k) == [i \in 1 .. k |-> makeHashFunc(m, i)]

\* [makeHashFunc (m, i) for i in xrange (k)]
makeFuncs(m, k) == [i \in 1 .. k |-> makeHashFunc(m, i - 1)]

\* initError without the two assert statements
initErrorNoAsserts(m, k) ==
    IF m % WordBits # 0 THEN "ValueError" ELSE "none"

\* the exception __init__ (m, k) ends in, "none" when it returns
initError(m, k) ==
    IF ~(m > 0) THEN "AssertionError"
    ELSE IF ~(k > 0) THEN "AssertionError"
    ELSE IF m % WordBits # 0 THEN "ValueError"
    ELSE "none"

\* the fields __init__ sets, the new array being stored under reference r
initFields(m, k, r) ==
    [m |-> m, k |-> k, n |-> 0, bits |-> r, funcs |-> makeFuncs(m, k)]

\* BloomFilter (m, k), the object being bound to the name o
BloomFilter(o, m, k) ==
    /\ o = "F"
    /\ ~Live(o)
    /\ LET err == initError(m, k)
       IN  /\ last' = Call("new", o, "", m, k, FALSE, NoFp, err)
           /\ IF err = "none"
              THEN /\ heap' = Append(heap, zeros(m \div WordBits))
                   /\ flt' = [flt EXCEPT ![o] = initFields(m, k, Len(heap) + 1)]
              ELSE UNCHANGED <<heap, flt>>
    /\ UNCHANGED <<pickled, snap, added, adds, calls>>
    /\ UNCHANGED <<hvars, ovars, cvars, qvars>>

\* addLoop leaving out the last hash function
RECURSIVE addLoopAllButLast(_, _, _, _)
addLoopAllButLast(words, funcs, i, item) ==
    IF i >= Len(funcs) THEN [bits |-> words, err |-> "none"]
    ELSE LET n == f(funcs[i], item)
             dword == n \div WordBits
             bit == n % WordBits
         IN  IF ~ValidIndex(words, dword)
             THEN [bits |-> words, err |-> "IndexError"]
             ELSE addLoopAllButLast([words EXCEPT ![Position(words, dword)] =
                                                      WordOr(@, shl1(bit))],
                                    funcs, i + 1, item)

\* the loop of add over funcs[i..]: the array when the loop ends or raises
RECURSIVE addLoop(_, _, _, _)
addLoop(words, funcs, i, item) ==
    IF i > Len(funcs) THEN [bits |-> words, err |-> "none"]
    ELSE LET n == f(funcs[i], item)
             dword == n \div WordBits
             bit == n % WordBits
         IN  IF ~ValidIndex(words, dword)
             THEN [bits |-> words, err |-> "IndexError"]
             ELSE addLoop([words EXCEPT ![Position(words, dword)] =
                                             WordOr(@, shl1(bit))],
                          funcs, i + 1, item)

\* add counting an item only when it changes the array
addCountsNewOnly(o, item) ==
    /\ Live(o)
    /\ calls < MaxAdds
    /\ LET res == addLoop(Words(o), flt[o].funcs, 1, item)
       IN  /\ heap' = [heap EXCEPT ![flt[o].bits] = res.bits]
           /\ flt' = IF res.err = "none" /\ res.bits # Words(o)
                     THEN [flt EXCEPT ![o].n = @ + 1]
                     ELSE flt
           /\ last' = Call("add", o, item, 0, 0, FALSE, NoFp, res.err)
           /\ added' = IF res.err = "none"
                       THEN [added EXCEPT ![o] = @ \cup {item}]
                       ELSE added
           /\ adds' = IF res.err = "none"
                      THEN [adds EXCEPT ![o] = @ + 1]
                      ELSE adds
    /\ calls' = calls + 1
    /\ UNCHANGED <<pickled, snap>>
    /\ UNCHANGED <<hvars, ovars, cvars, qvars>>

add(o, item) ==
    /\ Live(o)
    /\ calls < MaxAdds
    /\ LET res == addLoop(Words(o), flt[o].funcs, 1, item)
       IN  /\ heap' = [heap EXCEPT ![flt[o].bits] = res.bits]
           /\ flt' = IF res.err = "none"
                     THEN [flt EXCEPT ![o].n = @ + 1]
                     ELSE flt
           /\ last' = Call("add", o, item, 0, 0, FALSE, NoFp, res.err)
           /\ added' = IF res.err = "none"
                       THEN [added EXCEPT ![o] = @ \cup {item}]
                       ELSE added
           /\ adds' = IF res.err = "none"
                      THEN [adds EXCEPT ![o] = @ + 1]
                      ELSE adds
    /\ calls' = calls + 1
    /\ UNCHANGED <<pickled, snap>>
    /\ UNCHANGED <<hvars, ovars, cvars, qvars>>

\* mayLoop returning True at the first bit that is 1
RECURSIVE mayLoopAny(_, _, _, _)
mayLoopAny(words, funcs, i, item) ==
    IF i > Len(funcs) THEN [ret |-> FALSE, err |-> "none"]
    ELSE LET n == f(funcs[i], item)
             dword == n \div WordBits
             bit == n % WordBits
         IN  IF ~ValidIndex(words, dword)
             THEN [ret |-> FALSE, err |-> "IndexError"]
             ELSE IF WordAnd(words[Position(words, dword)], shl1(bit)) # ZeroWord
             THEN [ret |-> TRUE, err |-> "none"]
             ELSE mayLoopAny(words, funcs, i + 1, item)

\* the loop of maycontain over funcs[i..]: the value returned or the exception
RECURSIVE mayLoop(_, _, _, _)
mayLoop(words, funcs, i, item) ==
    IF i > Len(funcs) THEN [ret |-> TRUE, err |-> "none"]
    ELSE LET n == f(funcs[i], item)
             dword == n \div WordBits
             bit == n % WordBits
         IN  IF ~ValidIndex(words, dword)
             THEN [ret |-> FALSE, err |-> "IndexError"]
             ELSE IF WordAnd(words[Position(words, dword)], shl1(bit)) = ZeroWord
             THEN [ret |-> FALSE, err |-> "none"]
             ELSE mayLoop(words, funcs, i + 1, item)

\* maycontain testing with |= in place of &
maycontainSetting(o, item) ==
    /\ Live(o)
    /\ LET res == addLoop(Words(o), flt[o].funcs, 1, item)
       IN  /\ heap' = [heap EXCEPT ![flt[o].bits] = res.bits]
           /\ last' = Call("maycontain", o, item, 0, 0, res.err = "none",
                           NoFp, res.err)
    /\ UNCHANGED <<flt, pickled, snap, added, adds, calls>>
    /\ UNCHANGED <<hvars, ovars, cvars, qvars>>

maycontain(o, item) ==
    /\ Live(o)
    /\ LET res == mayLoop(Words(o), flt[o].funcs, 1, item)
       IN  last' = Call("maycontain", o, item, 0, 0, res.ret, NoFp, res.err)
    /\ UNCHANGED <<flt, heap, pickled, snap, added, adds, calls>>
    /\ UNCHANGED <<hvars, ovars, cvars, qvars>>

\* fill storing into the first element only
fillFirst(a, x) == [i \in 1 .. Len(a) |-> IF i = 1 THEN x ELSE a[i]]

\* fill leaving an array of no elements
fillResized(a, x) == [i \in 1 .. 0 |-> x]

\* a.fill (x)
fill(a, x) == [i \in 1 .. Len(a) |-> x]

\* self.bits.fill (0)
clear(o) ==
    /\ Live(o)
    /\ heap' = [heap EXCEPT ![flt[o].bits] = fill(@, ZeroWord)]
    /\ last' = Call("clear", o, "", 0, 0, FALSE, NoFp, "none")
    /\ added' = [added EXCEPT ![o] = {}]
    /\ adds' = [adds EXCEPT ![o] = 0]
    /\ UNCHANGED <<flt, pickled, snap, calls>>
    /\ UNCHANGED <<hvars, ovars, cvars, qvars>>

\* (1 - exp (-k * n / m)) ** k, returned as the k, n and m it is taken from
fprate(o) ==
    /\ Live(o)
    /\ last' = Call("fprate", o, "", 0, 0, FALSE,
                    [k |-> flt[o].k, n |-> flt[o].n, m |-> flt[o].m], "none")
    /\ UNCHANGED <<flt, heap, pickled, snap, added, adds, calls>>
    /\ UNCHANGED <<hvars, ovars, cvars, qvars>>

\* __getstate__: the tuple (k, n, bits), bits being the array's reference
getstate(self) == <<self.k, self.n, self.bits>>

\* setstate with m = self.bits.size
setstateSize(state, h) ==
    LET m == Len(h[state[3]])
    IN  [m |-> m, k |-> state[1], n |-> state[2], bits |-> state[3],
         funcs |-> [i \in 1 .. state[1] |-> makeHashFunc(m, i - 1)]]

\* setstate with m = self.bits.size * 64
setstateSize64(state, h) ==
    LET m == Len(h[state[3]]) * 64
    IN  [m |-> m, k |-> state[1], n |-> state[2], bits |-> state[3],
         funcs |-> [i \in 1 .. state[1] |-> makeHashFunc(m, i - 1)]]

\* __setstate__ on a fresh object, h being the heap the reference is read in
setstate(state, h) ==
    LET m == Len(h[state[3]]) * WordBits
    IN  [m |-> m, k |-> state[1], n |-> state[2], bits |-> state[3],
         funcs |-> makeFuncs(m, state[1])]

\* pickle.dump (o): __getstate__, and the array written out by value
dump(o) ==
    /\ Live(o)
    /\ LET state == getstate(flt[o])
       IN  pickled' = [k |-> state[1], n |-> state[2], bits |-> heap[state[3]]]
    /\ snap' = [m |-> flt[o].m, k |-> flt[o].k, n |-> flt[o].n,
                bits |-> Words(o), funcs |-> flt[o].funcs, adds |-> adds[o]]
    /\ last' = Call("dump", o, "", 0, 0, FALSE, NoFp, "none")
    /\ UNCHANGED <<flt, heap, added, adds, calls>>
    /\ UNCHANGED <<hvars, ovars, cvars, qvars>>

\* pickle.load as o: a fresh array read back, a fresh object, __setstate__
load(o) ==
    /\ o = "G"
    /\ ~Live(o)
    /\ pickled # NoState
    /\ heap' = Append(heap, pickled.bits)
    /\ flt' = [flt EXCEPT ![o] =
                 setstate(<<pickled.k, pickled.n, Len(heap) + 1>>, heap')]
    /\ last' = Call("load", o, "", 0, 0, FALSE, NoFp, "none")
    /\ added' = [added EXCEPT ![o] = {}]
    /\ adds' = [adds EXCEPT ![o] = snap.adds]
    /\ UNCHANGED <<pickled, snap, calls>>
    /\ UNCHANGED <<hvars, ovars, cvars, qvars>>

\* o = BloomFilter.__new__ (BloomFilter); o.__setstate__ (p.__getstate__ ()):
\* a second filter reconstructed from the record p.__getstate__ returned,
\* with no pickle file in between (copy.copy (p) does the same)
reconstruct(o, p) ==
    /\ o = "G"
    /\ ~Live(o)
    /\ Live(p)
    /\ flt' = [flt EXCEPT ![o] = setstate(getstate(flt[p]), heap)]
    /\ last' = Call("reconstruct", o, "", 0, 0, FALSE, NoFp, "none")
    /\ added' = [added EXCEPT ![o] = added[p]]
    /\ adds' = [adds EXCEPT ![o] = adds[p]]
    /\ UNCHANGED <<heap, pickled, snap, calls>>
    /\ UNCHANGED <<hvars, ovars, cvars, qvars>>

\* the digest size of SHA-1, in bytes
DigestLen == 20

\* the m the closures of the hash specification are made for
HashM == {1, 31, 32, 64, 1000}

\* the digests its calls fold: those of the model's strings, and the extremes
Digests ==
    {sha1(s \o x) : s \in Salts, x \in Items}
        \cup {[i \in 1 .. DigestLen |-> 0], [i \in 1 .. DigestLen |-> 255]}

NoFirst == [m |-> 0, digest |-> <<>>, ret |-> 0]

\* f is entered: digest = h.digest (); v = 0; scale = 1
hashCall(m, digest) ==
    /\ hpc \in {"idle", "done"}
    /\ hcalls < MaxCalls
    /\ hpc' = "loop"
    /\ hm' = m
    /\ hdigest' = digest
    /\ hi' = 1
    /\ hv' = 0
    /\ hscale' = BigFromInt(1)
    /\ hcalls' = hcalls + 1
    /\ UNCHANGED <<hret, hfirst>>
    /\ UNCHANGED <<fvars, ovars, cvars, qvars>>

\* one turn of "for b in digest"
hashTurn ==
    /\ hpc = "loop"
    /\ hi <= Len(hdigest)
    /\ LET s == FoldStep(hv, hscale, hdigest[hi], hm)
       IN  /\ hv' = s.v
           /\ hscale' = s.scale
    /\ hi' = hi + 1
    /\ UNCHANGED <<hpc, hm, hdigest, hret, hfirst, hcalls>>
    /\ UNCHANGED <<fvars, ovars, cvars, qvars>>

\* return v
hashReturn ==
    /\ hpc = "loop"
    /\ hi > Len(hdigest)
    /\ hpc' = "done"
    /\ hret' = hv
    /\ hfirst' = IF hfirst = NoFirst
                 THEN [m |-> hm, digest |-> hdigest, ret |-> hv]
                 ELSE hfirst
    /\ UNCHANGED <<hm, hdigest, hi, hv, hscale, hcalls>>
    /\ UNCHANGED <<fvars, ovars, cvars, qvars>>

(***************************************************************************)
(* optimalBloom                                                            *)
(*                                                                         *)
(* A float64 is held as an exact fraction num / den in lowest terms with   *)
(* den > 0, or as one of nan, inf, -inf (kind "inf", num its sign).        *)
(* Arithmetic on them follows numpy: dividing by zero and overflowing      *)
(* give inf or nan and a warning, never an exception.                      *)
(***************************************************************************)
RECURSIVE gcd(_, _)
gcd(a, b) == IF b = 0 THEN a ELSE gcd(b, a % b)

abs(a) == IF a < 0 THEN -a ELSE a

Frac(a, b) ==
    LET s == IF b < 0 THEN -1 ELSE 1
        g == gcd(abs(a), abs(b))
    IN  [kind |-> "fin", num |-> (s * a) \div g, den |-> (s * b) \div g]

NaN == [kind |-> "nan", num |-> 0, den |-> 1]
Inf(s) == [kind |-> "inf", num |-> s, den |-> 1]
Sign(x) == IF x.num > 0 THEN 1 ELSE IF x.num < 0 THEN -1 ELSE 0

\* a Python int used as an operand of float arithmetic
FromInt(i) == Frac(i, 1)

\* x * y
FMul(x, y) ==
    IF x.kind = "nan" \/ y.kind = "nan" THEN NaN
    ELSE IF x.kind = "inf" \/ y.kind = "inf"
    THEN IF Sign(x) * Sign(y) = 0 THEN NaN ELSE Inf(Sign(x) * Sign(y))
    ELSE LET g1 == gcd(abs(x.num), y.den)
             g2 == gcd(abs(y.num), x.den)
         IN  Frac((x.num \div g1) * (y.num \div g2),
                  (x.den \div g2) * (y.den \div g1))

\* x / y
FDiv(x, y) ==
    IF x.kind = "nan" \/ y.kind = "nan" THEN NaN
    ELSE IF y.kind = "inf"
    THEN IF x.kind = "inf" THEN NaN ELSE FromInt(0)
    ELSE IF y.num = 0
    THEN IF Sign(x) = 0 THEN NaN ELSE Inf(Sign(x))
    ELSE IF x.kind = "inf" THEN Inf(Sign(x) * Sign(y))
    ELSE FMul(x, Frac(y.den, y.num))

\* N.ceil (x)
ceil(x) ==
    IF x.kind = "fin" THEN FromInt(-((-x.num) \div x.den)) ELSE x

\* int (x): truncation towards zero, an exception for nan and the infinities
int(x) ==
    IF x.kind = "nan" THEN [err |-> "ValueError", val |-> 0]
    ELSE IF x.kind = "inf" THEN [err |-> "OverflowError", val |-> 0]
    ELSE [err |-> "none",
          val |-> IF x.num >= 0 THEN x.num \div x.den
                  ELSE -((-x.num) \div x.den)]

max(a, b) == IF a >= b THEN a ELSE b

\* the float N.log (2) = 0.69314718..., as the fraction 2731 / 3940
Ln2 == Frac(2731, 3940)

\* A float argument of N.log: sign -1 is a negative number, sign 0 is 0.0,
\* sign 1 is the positive number 2 ** (-h / 2), which is below 1 for h > 0,
\* 1.0 for h = 0 and above 1 for h < 0.
Float(sign, h) == [sign |-> sign, h |-> h]
Two == Float(1, -2)

\* N.log (x)
log(x) ==
    IF x.sign < 0 THEN NaN
    ELSE IF x.sign = 0 THEN Inf(-1)
    ELSE FMul(Frac(-x.h, 2), Ln2)

\* ~a on Python integers
IntNot(a) == -a - 1

\* a & b on Python integers, which behave as two's complement numbers of
\* unbounded width: bit by bit from the least significant end
RECURSIVE IntAnd(_, _)
IntAnd(a, b) ==
    IF a = 0 \/ b = 0 THEN 0
    ELSE IF a = -1 THEN b
    ELSE IF b = -1 THEN a
    ELSE (a % 2) * (b % 2) + 2 * IntAnd(a \div 2, b \div 2)

\* roundUp32 adding 32 in place of 31
roundUp32Plus32(m) == IntAnd(m + 32, IntNot(31))

\* m = (m + 31) & ~0x1F
roundUp32(m) == IntAnd(m + 31, IntNot(31))

\* k = max (int (k), 1)
atLeast1(k) == max(k, 1)

\* the largest h of an argument fprate = 2 ** (-h / 2)
MaxHalf == 96
\* the arguments the callers pass to optimalBloom
FpRates == {Float(-1, 0), Float(0, 0)} \cup {Float(1, h) : h \in -4 .. MaxHalf}
NExpected == {-100, -1, 0, 1, 2, 3, 100}

NoRet == [err |-> "none", line |-> 0, m |-> 0, k |-> 0]

\* optimalBloom (fprate, nexpected), the argument fprate being named rate
\* here.  oret.line is the line the call ended
\* at: the line that raised, or 182 with the outcome of BloomFilter (m, k).
\* The function keeps nothing between calls, so a run makes one call.
optimalBloom(rate, nexpected) ==
    /\ opc = "idle"
    /\ LET ln2 == log(Two)
           m1  == FDiv(FMul(FromInt(-nexpected), log(rate)), FMul(ln2, ln2))
           c   == int(ceil(m1))
           m   == roundUp32(c.val)
           k1  == FDiv(FMul(ln2, FromInt(m)), FromInt(nexpected))
           ki  == int(k1)
           k   == atLeast1(ki.val)
       IN  IF c.err # "none"
           THEN /\ oret' = [err |-> c.err, line |-> 175, m |-> 0, k |-> 0]
                /\ oc' = 0 /\ om' = 0 /\ ok' = 0
           ELSE IF ki.err # "none"
           THEN /\ oret' = [err |-> ki.err, line |-> 180, m |-> 0, k |-> 0]
                /\ oc' = c.val /\ om' = m /\ ok' = 0
           ELSE /\ oret' = [err |-> initError(m, k), line |-> 182,
                            m |-> m, k |-> k]
                /\ oc' = c.val /\ om' = m /\ ok' = k
    /\ opc' = "done"
    /\ ofprate' = rate
    /\ onexpected' = nexpected
    /\ UNCHANGED <<fvars, hvars, cvars, qvars>>

(***************************************************************************)
(* fprate as a number.  A float64 is held here as its IEEE 754 bit pattern *)
(* cut into three limbs <<bits 63..44, bits 43..22, bits 21..0>>; for      *)
(* floats that are not negative the order of the patterns is the order of  *)
(* the floats.  The table holds the floats that                            *)
(* (1. - N.exp (-k * n / m)) ** k evaluates to for m = RateM, k = RateK    *)
(* and n = 0, 1, 2, ...                                                    *)
(***************************************************************************)
\* the filter optimalBloom (1e-6, 1) returns
RateM == 32
RateK == 22
\* the largest n the filter is taken to
MaxRateN == 62

FloatZero == <<0, 0, 0>>
FloatOne == <<261888, 0, 0>>

\* x < y for floats that are not negative
FloatLess(x, y) ==
    \/ x[1] < y[1]
    \/ x[1] = y[1] /\ x[2] < y[2]
    \/ x[1] = y[1] /\ x[2] = y[2] /\ x[3] < y[3]

\* N.exp (-k * n / m) ** k, for m = RateM and k = RateK, row n + 1 for n
fprateTableNoComplement ==
    <<<<261888, 0, 0>>, <<256289, 3628218, 756253>>, <<250696, 880448, 1090580>>,
      <<245107, 2630917, 663802>>, <<239524, 3305446, 2589708>>, <<233948, 1896470, 162798>>,
      <<228365, 3103293, 2746690>>, <<222769, 1772101, 1658310>>, <<217177, 3462006, 676966>>,
      <<211591, 2403425, 2360062>>, <<206011, 1561843, 3251272>>, <<200438, 100730, 3831224>>,
      <<194844, 911022, 2557756>>, <<189249, 3418192, 189131>>, <<183660, 1620454, 120887>>,
      <<178076, 2471704, 4141899>>, <<172499, 707982, 3507302>>, <<166920, 2030791, 389382>>,
      <<161323, 1977802, 3703419>>, <<155731, 365850, 2376675>>, <<150143, 3957233, 3183259>>,
      <<144562, 3076744, 517868>>, <<138988, 1016731, 3147823>>, <<133398, 2849690, 465098>>,
      <<127803, 2284248, 1585692>>, <<122213, 1201741, 3899227>>, <<116628, 2307994, 1448611>>,
      <<111050, 278161, 3631946>>, <<105475, 1387801, 3518286>>, <<99877, 2669835, 4075685>>,
      <<94284, 2014665, 380286>>, <<88696, 1940249, 427979>>, <<83114, 1103332, 4078564>>,
      <<77538, 2732117, 2147254>>, <<71953, 1046619, 2130777>>, <<66357, 1662738, 1755589>>,
      <<60766, 1363250, 4112067>>, <<55180, 2801259, 2420577>>, <<49601, 592225, 60764>>,
      <<44028, 2331914, 905832>>, <<38431, 3838724, 3395957>>, <<32838, 9112, 1533686>>,
      <<27249, 534626, 3718629>>, <<21665, 4016462, 2187692>>, <<16089, 1037008, 2966652>>,
      <<10507, 3881600, 3572802>>, <<4911, 1543677, 3071162>>, <<21, 1965862, 3133370>>,
      <<0, 24, 1294745>>, <<0, 0, 28>>, <<0, 0, 0>>,
      <<0, 0, 0>>, <<0, 0, 0>>, <<0, 0, 0>>,
      <<0, 0, 0>>, <<0, 0, 0>>, <<0, 0, 0>>,
      <<0, 0, 0>>, <<0, 0, 0>>, <<0, 0, 0>>,
      <<0, 0, 0>>, <<0, 0, 0>>, <<0, 0, 0>>,
      <<0, 0, 0>>>>

\* fprateValue leaving out the "1. -"
fprateValueNoComplement(k, n, m) == fprateTableNoComplement[n + 1]

\* (1. - N.exp (-k * n / m)) ** k, for m = RateM and k = RateK, row n + 1
\* for n
fprateTable ==
    <<<<0, 0, 0>>, <<256195, 3623542, 483210>>, <<259502, 731588, 2172451>>,
      <<260763, 1492517, 1898079>>, <<261342, 3266805, 2987079>>, <<261619, 127649, 2866217>>,
      <<261733, 3127922, 1968049>>, <<261803, 3593933, 901925>>, <<261843, 3729411, 3935591>>,
      <<261865, 1449657, 1046511>>, <<261876, 2039896, 2454968>>, <<261882, 752159, 4093739>>,
      <<261885, 273646, 959953>>, <<261886, 2190677, 3957429>>, <<261887, 1075651, 2792701>>,
      <<261887, 2625606, 1496225>>, <<261887, 3405376, 2163764>>, <<261887, 3797571, 3191688>>,
      <<261887, 3994805, 3172747>>, <<261887, 4093987, 3238084>>, <<261887, 4143861, 1147808>>,
      <<261887, 4168939, 2780574>>, <<261887, 4181549, 4087897>>, <<261887, 4187890, 3624959>>,
      <<261887, 4191079, 1134782>>, <<261887, 4192682, 2112359>>, <<261887, 4193488, 2769394>>,
      <<261887, 4193894, 89775>>, <<261887, 4194097, 3564340>>, <<261887, 4194200, 1430976>>,
      <<261887, 4194251, 3678681>>, <<261887, 4194277, 3317445>>, <<261887, 4194290, 3444618>>,
      <<261887, 4194297, 1565790>>, <<261887, 4194300, 2801342>>, <<261887, 4194302, 1361104>>,
      <<261887, 4194303, 660642>>, <<261887, 4194303, 2417474>>, <<261887, 4194303, 3300862>>,
      <<261887, 4194303, 3745042>>, <<261887, 4194303, 3968408>>, <<261887, 4194303, 4080718>>,
      <<261887, 4194303, 4137192>>, <<261887, 4194303, 4165594>>, <<261887, 4194303, 4179872>>,
      <<261887, 4194303, 4187044>>, <<261887, 4194303, 4190652>>, <<261887, 4194303, 4192478>>,
      <<261887, 4194303, 4193380>>, <<261887, 4194303, 4193842>>, <<261887, 4194303, 4194062>>,
      <<261887, 4194303, 4194194>>, <<261887, 4194303, 4194238>>, <<261887, 4194303, 4194282>>,
      <<261887, 4194303, 4194282>>, <<261888, 0, 0>>, <<261888, 0, 0>>,
      <<261888, 0, 0>>, <<261888, 0, 0>>, <<261888, 0, 0>>,
      <<261888, 0, 0>>, <<261888, 0, 0>>, <<261888, 0, 0>>,
      <<261888, 0, 0>>>>

\* r = (1. - N.exp (-self.k * self.n / self.m)); r **= self.k
fprateValue(k, n, m) == fprateTable[n + 1]

NoRate == [n |-> -1, v |-> FloatZero]

\* BloomFilter (RateM, RateK)
rateFilter ==
    /\ qpc = "none"
    /\ initError(RateM, RateK) = "none"
    /\ qpc' = "live"
    /\ qn' = initFields(RateM, RateK, 0).n
    /\ UNCHANGED <<qfp, qprev>>
    /\ UNCHANGED <<fvars, hvars, ovars, cvars>>

\* add (item), of which only self.n += 1 is followed
rateAdd ==
    /\ qpc = "live"
    /\ qn < MaxRateN
    /\ qn' = qn + 1
    /\ UNCHANGED <<qpc, qfp, qprev>>
    /\ UNCHANGED <<fvars, hvars, ovars, cvars>>

\* fprate ()
rateCall ==
    /\ qpc = "live"
    /\ qfp' = [n |-> qn, v |-> fprateValue(RateK, qn, RateM)]
    /\ qprev' = qfp
    /\ UNCHANGED <<qpc, qn>>
    /\ UNCHANGED <<fvars, hvars, ovars, cvars>>

(***************************************************************************)
(* add and maycontain run by two threads on the filter F, with no lock:    *)
(* a writer thread inside add and a reader thread inside maycontain, each  *)
(* followed one turn of its loop at a time.                                *)
(***************************************************************************)
\* the writer calls F.add (item)
wAdd(item) ==
    /\ Live("F")
    /\ wpc = "idle"
    /\ calls < MaxAdds
    /\ wpc' = "loop"
    /\ witem' = item
    /\ wi' = 1
    /\ calls' = calls + 1
    /\ UNCHANGED <<wdone, rpc, ritem, ri, rret, rafter, rmid>>
    /\ UNCHANGED <<flt, heap, pickled, snap, last, added, adds>>
    /\ UNCHANGED <<hvars, ovars, qvars>>

\* one turn of add's loop: self.bits[dword] |= (1 << bit)
wTurn ==
    /\ wpc = "loop"
    /\ wi <= Len(flt["F"].funcs)
    /\ LET n == f(flt["F"].funcs[wi], witem)
           dword == n \div WordBits
           bit == n % WordBits
       IN  heap' = [heap EXCEPT ![flt["F"].bits][Position(Words("F"), dword)] =
                                    WordOr(@, shl1(bit))]
    /\ wi' = wi + 1
    /\ UNCHANGED <<wpc, witem, wdone, rpc, ritem, ri, rret, rafter, rmid>>
    /\ UNCHANGED <<flt, pickled, snap, last, added, adds, calls>>
    /\ UNCHANGED <<hvars, ovars, qvars>>

\* wCount leaving the loop one hash function early
wCountEarly ==
    /\ wpc = "loop"
    /\ wi >= Len(flt["F"].funcs)
    /\ flt' = [flt EXCEPT !["F"].n = @ + 1]
    /\ wpc' = "idle"
    /\ wdone' = wdone \cup {witem}
    /\ UNCHANGED <<witem, wi, rpc, ritem, ri, rret, rafter, rmid>>
    /\ UNCHANGED <<heap, pickled, snap, last, added, adds, calls>>
    /\ UNCHANGED <<hvars, ovars, qvars>>

\* the loop of add is over: self.n += 1, and add returns
wCount ==
    /\ wpc = "loop"
    /\ wi > Len(flt["F"].funcs)
    /\ flt' = [flt EXCEPT !["F"].n = @ + 1]
    /\ wpc' = "idle"
    /\ wdone' = wdone \cup {witem}
    /\ UNCHANGED <<witem, wi, rpc, ritem, ri, rret, rafter, rmid>>
    /\ UNCHANGED <<heap, pickled, snap, last, added, adds, calls>>
    /\ UNCHANGED <<hvars, ovars, qvars>>

\* the reader calls F.maycontain (item)
rMaycontain(item) ==
    /\ Live("F")
    /\ rpc \in {"idle", "done"}
    /\ rpc' = "loop"
    /\ ritem' = item
    /\ ri' = 1
    /\ rafter' = (item \in wdone)
    /\ rmid' = IF wpc = "loop" /\ witem = item THEN wi - 1 ELSE 0
    /\ UNCHANGED <<wpc, witem, wi, wdone, rret>>
    /\ UNCHANGED fvars
    /\ UNCHANGED <<hvars, ovars, qvars>>

\* one turn of maycontain's loop: return False at a bit that is 0
rTurn ==
    /\ rpc = "loop"
    /\ ri <= Len(flt["F"].funcs)
    /\ LET n == f(flt["F"].funcs[ri], ritem)
           dword == n \div WordBits
           bit == n % WordBits
       IN  IF WordAnd(Words("F")[Position(Words("F"), dword)], shl1(bit))
                 = ZeroWord
           THEN /\ rpc' = "done"
                /\ rret' = FALSE
                /\ ri' = ri
           ELSE /\ ri' = ri + 1
                /\ UNCHANGED <<rpc, rret>>
    /\ UNCHANGED <<wpc, witem, wi, wdone, ritem, rafter, rmid>>
    /\ UNCHANGED fvars
    /\ UNCHANGED <<hvars, ovars, qvars>>

\* the loop of maycontain is over: return True
rReturn ==
    /\ rpc = "loop"
    /\ ri > Len(flt["F"].funcs)
    /\ rpc' = "done"
    /\ rret' = TRUE
    /\ UNCHANGED <<wpc, witem, wi, wdone, ritem, ri, rafter, rmid>>
    /\ UNCHANGED fvars
    /\ UNCHANGED <<hvars, ovars, qvars>>

Init ==
    /\ hpc = "idle"
    /\ hm = 1
    /\ hdigest = <<>>
    /\ hi = 1
    /\ hv = 0
    /\ hscale = BigFromInt(1)
    /\ hret = 0
    /\ hfirst = NoFirst
    /\ hcalls = 0
    /\ flt = [o \in Obj |-> NoFilter]
    /\ heap = <<>>
    /\ pickled = NoState
    /\ snap = NoSnap
    /\ last = NoCall
    /\ added = [o \in Obj |-> {}]
    /\ adds = [o \in Obj |-> 0]
    /\ calls = 0
    /\ opc = "idle"
    /\ ofprate = Float(1, 0)
    /\ onexpected = 0
    /\ oc = 0
    /\ om = 0
    /\ ok = 0
    /\ oret = NoRet
    /\ wpc = "idle"
    /\ witem = ""
    /\ wi = 1
    /\ wdone = {}
    /\ rpc = "idle"
    /\ ritem = ""
    /\ ri = 1
    /\ rret = FALSE
    /\ rafter = FALSE
    /\ rmid = 0
    /\ qpc = "none"
    /\ qn = 0
    /\ qfp = NoRate
    /\ qprev = NoRate

Next ==
    \/ \E o \in Obj, m \in MArgs, k \in KArgs : BloomFilter(o, m, k)
    \/ \E o \in Obj, item \in Items : add(o, item)
    \/ \E o \in Obj, item \in Items : maycontain(o, item)
    \/ \E o \in Obj : clear(o)
    \/ \E o \in Obj : fprate(o)
    \/ \E o \in Obj : dump(o)
    \/ \E o \in Obj : load(o)

Spec == Init /\ [][Next]_vars

\* the hash specification: calls of the closures alone
HashNext ==
    \/ \E m \in HashM, digest \in Digests : hashCall(m, digest)
    \/ hashTurn
    \/ hashReturn

SpecHash == Init /\ [][HashNext]_vars

\* the sharing specification: filters reconstructed in memory, with no
\* pickle file, and the calls made on them
ShareNext ==
    \/ \E o \in Obj, m \in MArgs, k \in KArgs : BloomFilter(o, m, k)
    \/ \E o \in Obj, p \in Obj : reconstruct(o, p)
    \/ \E o \in Obj, item \in Items : add(o, item)
    \/ \E o \in Obj, item \in Items : maycontain(o, item)
    \/ \E o \in Obj : clear(o)

SpecShare == Init /\ [][ShareNext]_vars

\* the estimate specification: one filter, its adds and its fprate calls
RateNext ==
    \/ rateFilter
    \/ rateAdd
    \/ rateCall

SpecRate == Init /\ [][RateNext]_vars

\* the two-thread specification: F is constructed, then a writer and a
\* reader work on it, their turns interleaved in any order
ConcNext ==
    \/ \E m \in MArgs, k \in KArgs : BloomFilter("F", m, k)
    \/ \E item \in Items : wAdd(item)
    \/ wTurn
    \/ wCount
    \/ \E item \in Items : rMaycontain(item)
    \/ rTurn
    \/ rReturn

SpecConc == Init /\ [][ConcNext]_vars

\* the sizing specification: calls of optimalBloom alone
OptNext ==
    \E rate \in FpRates, nexpected \in NExpected :
        optimalBloom(rate, nexpected)

SpecOpt == Init /\ [][OptNext]_vars

(***************************************************************************)
(* Properties                                                              *)
(***************************************************************************)
\* what o.maycontain (item) returns in the current state
Answer(o, item) == mayLoop(Words(o), flt[o].funcs, 1, item)

\* bit j of word i of o's array is 1
BitIsSet(o, i, j) == Words(o)[i][j] = 1

\* some bit of o's array is 1
SomeBit(o) == \E i \in 1 .. Len(Words(o)) : Words(o)[i] # ZeroWord

\* C1: no false negatives.  An item passed to o.add since o's last clear is
\* answered TRUE by o.maycontain in every later state, whatever was added
\* to o before or after it; a maycontain call just made on such an item
\* has returned TRUE.
C1_NoFalseNegatives ==
    /\ \A o \in Obj : Live(o) =>
          \A x \in added[o] : Answer(o, x) = [ret |-> TRUE, err |-> "none"]
    /\ (last.op = "maycontain" /\ last.item \in added[last.obj])
          => (last.ret = TRUE /\ last.err = "none")

\* maycontain ("d") has returned TRUE on a filter to which "d" and then
\* "fw" were added, "d" twice or after an earlier clear
C1_Witness ==
    /\ last.op = "maycontain"
    /\ last.item = "d"
    /\ last.ret = TRUE
    /\ added[last.obj] = Items
    /\ calls = MaxAdds

\* C2: in the state right after o.clear (), every word of o's array is 0.
C2_ClearZeroesBits ==
    last.op = "clear" =>
        \A i \in 1 .. Len(Words(last.obj)) : Words(last.obj)[i] = ZeroWord

\* clear has run on a two-word filter that two adds had been made to
C2_Witness ==
    /\ last.op = "clear"
    /\ flt[last.obj].m = 64
    /\ flt[last.obj].n >= 2
    /\ adds[last.obj] = 0

\* C3: in the state right after o.clear (), o.n is 0, and in every state
\* o.n is the number of add calls since o was built or last cleared.
C3_ClearResetsN ==
    /\ last.op = "clear" => flt[last.obj].n = 0
    /\ \A o \in Obj : Live(o) => flt[o].n = adds[o]

\* C4: monotonic bits.  A bit of o's array that is 1 is still 1 after any
\* step that is not o.clear ().
C4_MonotonicBits ==
    [][\A o \in Obj : Live(o) =>
          \A i \in 1 .. Len(Words(o)) : \A j \in BitPos :
             BitIsSet(o, i, j) =>
                \/ BitIsSet(o, i, j)'
                \/ (last'.op = "clear" /\ last'.obj = o)]_vars

\* a second add has gone into a word that already held a bit of another item
C4_Witness ==
    /\ last.op = "add"
    /\ added[last.obj] = Items
    /\ \E i \in 1 .. Len(Words(last.obj)) :
          Cardinality({j \in BitPos : BitIsSet(last.obj, i, j)}) >= 2

\* C5: a filter is built with n = 0; every add raises n by exactly 1,
\* whether or not it changes the array; no other call than add and clear
\* changes n, and n is lowered by no call other than clear.
C5_AddCounts ==
    [][/\ (last'.op = "new" /\ last'.err = "none") => flt'[last'.obj].n = 0
       /\ \A o \in Obj :
             /\ (last'.op = "add" /\ last'.obj = o /\ calls' = calls + 1)
                   => flt'[o].n = flt[o].n + 1
             /\ (Live(o) /\ flt'[o].n # flt[o].n)
                   => (last'.op \in {"add", "clear"} /\ last'.obj = o)
             /\ (Live(o) /\ flt'[o].n < flt[o].n) => last'.op = "clear"]_vars

\* an item was added a second time, the array left as it was, and counted
C5_Witness ==
    /\ last.op = "add"
    /\ added[last.obj] = {last.item}
    /\ adds[last.obj] = 2
    /\ flt[last.obj].n = 2

\* C6: BloomFilter (m, k) raises exactly when m <= 0 or k <= 0 or m is no
\* multiple of 32, and then leaves no object and no array behind; otherwise
\* it returns the object.  m = 31, m = -32 and k = 0 raise; (32, 1) does not.
C6_Constructor ==
    last.op = "new" =>
        /\ last.err # "none"
              <=> (last.m <= 0 \/ last.k <= 0 \/ last.m % 32 # 0)
        /\ last.err # "none" => (~Live(last.obj) /\ heap = <<>>)
        /\ last.err = "none" => Live(last.obj)
        /\ (last.m = 31 \/ last.m = -32 \/ last.k = 0) => last.err # "none"
        /\ (last.m = 32 /\ last.k = 1) => last.err = "none"

\* the constructor has refused m = -32, which is a multiple of 32
C6_Witness ==
    /\ last.op = "new"
    /\ last.m = -32
    /\ last.k = 1
    /\ last.err = "AssertionError"

\* C7: round trip.  The filter __setstate__ rebuilds from a pickled record
\* has the m, k, n, bits and hash functions the pickled filter had when it
\* was saved, and answers maycontain for every item as that filter did.
C7_RoundTrip ==
    last.op = "load" =>
        /\ flt[last.obj].m = snap.m
        /\ flt[last.obj].m = Len(Words(last.obj)) * 32
        /\ flt[last.obj].k = snap.k
        /\ flt[last.obj].n = snap.n
        /\ Words(last.obj) = snap.bits
        /\ \A x \in Items :
              Answer(last.obj, x) = mayLoop(snap.bits, snap.funcs, 1, x)

\* a two-word filter with two hash functions was read back after two adds
C7_Witness ==
    /\ last.op = "load"
    /\ snap.m = 64
    /\ snap.k = 2
    /\ snap.n = 2
    /\ SomeBit(last.obj)

\* C8: add, maycontain and clear are total.  For every live filter, item
\* and hash function the word index is a valid index of the array, and no
\* call of add, maycontain or clear has ended in an exception.
C8_Total ==
    /\ \A o \in Obj : Live(o) =>
          \A x \in Items : \A i \in 1 .. Len(flt[o].funcs) :
             /\ 0 <= f(flt[o].funcs[i], x) \div 32
             /\ f(flt[o].funcs[i], x) \div 32 < Len(Words(o))
    /\ last.op \in {"add", "maycontain", "clear"} => last.err = "none"

\* add has set a bit in the second word of a filter that was read back
C8_Witness ==
    /\ last.op = "add"
    /\ last.obj = "G"
    /\ last.err = "none"
    /\ Len(Words("G")) = 2
    /\ Words("G")[2] # Words("F")[2]

\* C9: a closure made for m returns v with 0 <= v < m, and a second call
\* with the digest and m of the first call returns what the first returned.
C9_HashRange ==
    hpc = "done" =>
        /\ 0 <= hret
        /\ hret < hm
        /\ (hfirst.m = hm /\ hfirst.digest = hdigest) => hret = hfirst.ret

\* a second call has repeated the first one, with a result other than 0
C9_Witness ==
    /\ hpc = "done"
    /\ hcalls = 2
    /\ hm = 1000
    /\ hfirst.m = hm
    /\ hfirst.digest = hdigest
    /\ hret > 0

\* C10: structural invariant.  Every live filter has m > 0, m a multiple of
\* 32, k >= 1, an array of exactly m / 32 words and exactly k hash
\* functions, the i-th made for this m with the salt str (i - 1).
C10_Structure ==
    \A o \in Obj : Live(o) =>
        /\ flt[o].m > 0
        /\ flt[o].m % 32 = 0
        /\ flt[o].k >= 1
        /\ Len(Words(o)) * 32 = flt[o].m
        /\ Len(flt[o].funcs) = flt[o].k
        /\ \A i \in 1 .. flt[o].k :
              flt[o].funcs[i] = [m |-> flt[o].m, salt |-> <<"0", "1", "2">>[i]]

\* a filter with two words and two hash functions was read back and cleared
C10_Witness ==
    /\ last.op = "clear"
    /\ last.obj = "G"
    /\ flt["G"].m = 64
    /\ flt["G"].k = 2
    /\ flt["G"].n >= 1

\* the argument fprate of the last optimalBloom call lies strictly between
\* 0 and 1
InUnit(x) == x.sign = 1 /\ x.h > 0

\* C11: sizing arithmetic of optimalBloom.  Once a call has computed
\* c = int (N.ceil (m)) >= 1, the m of line 177 is the smallest multiple of 32
\* that is >= c (c itself when c is a multiple of 32), hence positive; the k
\* of line 180 is >= 1; a filter that is returned has m a positive multiple
\* of 32 and k >= 1.
C11_Sizing ==
    opc = "done" =>
        /\ (oret.line >= 180 /\ oc >= 1) =>
              /\ om % 32 = 0
              /\ om >= oc
              /\ \A x \in oc .. om : x % 32 = 0 => x = om
              /\ (oc % 32 = 0 => om = oc)
              /\ om > 0
        /\ oret.line = 182 => ok >= 1
        /\ (oret.line = 182 /\ oret.err = "none") =>
              /\ oret.m > 0
              /\ oret.m % 32 = 0
              /\ oret.k >= 1

\* a call that reached c = 64, already a multiple of 32, and returned a filter
C11_Witness ==
    /\ opc = "done"
    /\ oc = 64
    /\ om = 64
    /\ oret.line = 182
    /\ oret.err = "none"
    /\ ok >= 1

\* C12: optimalBloom ends in an exception, returning no filter, whenever
\* nexpected <= 0 or fprate is not strictly between 0 and 1.
C12_RejectsBadArguments ==
    (opc = "done" /\ (onexpected <= 0 \/ ~InUnit(ofprate))) =>
        oret.err # "none"

\* the bit of o's array that o's i-th hash function sends item to is 1
HashBit(o, i, item) ==
    LET n == f(flt[o].funcs[i], item)
    IN  BitIsSet(o, (n \div WordBits) + 1, n % WordBits)

\* C13: maycontain does not mutate the filter.  A call of maycontain leaves
\* m, k, n, funcs and the reference bits of every filter, and every word
\* of every array, as they were, whether it returns TRUE or FALSE.
C13_MaycontainFrame ==
    [][last'.op = "maycontain" => (flt' = flt /\ heap' = heap)]_vars

\* maycontain has returned FALSE at the second hash function, the bit of the
\* first one being set
C13_Witness ==
    /\ last.op = "maycontain"
    /\ last.err = "none"
    /\ last.ret = FALSE
    /\ flt[last.obj].k = 2
    /\ HashBit(last.obj, 1, last.item)
    /\ ~HashBit(last.obj, 2, last.item)

\* C14: clear leaves the sizing and the hash family alone.  A call of clear
\* leaves m, k and funcs of every filter, and the number of words of its
\* array, as they were, so that every item is sent to the same k indices
\* after the call as before it.
C14_ClearFrame ==
    [][last'.op = "clear" =>
          \A o \in Obj : Live(o) =>
              /\ flt'[o].m = flt[o].m
              /\ flt'[o].k = flt[o].k
              /\ flt'[o].funcs = flt[o].funcs
              /\ Len(heap'[flt'[o].bits]) = Len(Words(o))
              /\ \A item \in Items, i \in 1 .. flt[o].k :
                    f(flt'[o].funcs[i], item) = f(flt[o].funcs[i], item)]_vars

\* a filter of two words and two hash functions, cleared after an add
C14_Witness ==
    /\ last.op = "clear"
    /\ flt[last.obj].k = 2
    /\ flt[last.obj].n > 0
    /\ Len(Words(last.obj)) = 2
    /\ ~SomeBit(last.obj)

\* C15: no mutable state is shared between instances.  An add or a clear on
\* one filter leaves the words of the array and the n of every other filter
\* as they were, also when the other filter was reconstructed by
\* __setstate__ from the record the first one's __getstate__ returned.
C15_NoSharedState ==
    [][\A o \in Obj :
          (last'.op \in {"add", "clear"} /\ last'.obj = o) =>
              \A p \in Obj \ {o} : Live(p) =>
                  /\ heap'[flt'[p].bits] = heap[flt[p].bits]
                  /\ flt'[p].n = flt[p].n]_vars

\* the float v lies in [0, 1]
InZeroOne(v) == ~FloatLess(v, FloatZero) /\ ~FloatLess(FloatOne, v)

\* C16 as stated: fprate returns a float in [0, 1], and of two calls the one
\* made at the larger n returns the strictly larger float.
C16_StrictlyIncreasing ==
    /\ qfp # NoRate => InZeroOne(qfp.v)
    /\ (qprev # NoRate /\ qprev.n < qfp.n) => FloatLess(qprev.v, qfp.v)

\* C16: fprate returns a float in [0, 1], and of two calls the one made at
\* the larger n never returns the smaller float: the estimate does not
\* decrease as n grows, but it stops growing once it has reached 1.0.
C16_NonDecreasing ==
    /\ qfp # NoRate => InZeroOne(qfp.v)
    /\ (qprev # NoRate /\ qprev.n < qfp.n) => ~FloatLess(qfp.v, qprev.v)

\* two calls at different n, the later one having returned more than the
\* earlier one and less than 1.0
C16_Witness ==
    /\ qprev # NoRate
    /\ 0 < qprev.n
    /\ qprev.n < qfp.n
    /\ FloatLess(qprev.v, qfp.v)
    /\ FloatLess(qfp.v, FloatOne)

\* C17: what maycontain answers.  On every filter and for every item,
\* maycontain returns TRUE exactly when, for each of the k hash functions,
\* bit (f (item) mod 32) of word (f (item) div 32) is 1, and FALSE
\* otherwise; so did the call made last.  On a filter just constructed and
\* on a filter just cleared it returns FALSE for every item.
C17_MaycontainAnswer ==
    /\ \A o \in Obj, item \in Items : Live(o) =>
          /\ Answer(o, item).err = "none"
          /\ Answer(o, item).ret =
                (\A i \in 1 .. flt[o].k : HashBit(o, i, item))
    /\ (last.op = "maycontain" /\ last.err = "none") =>
          last.ret = (\A i \in 1 .. flt[last.obj].k :
                         HashBit(last.obj, i, last.item))
    /\ (last.op \in {"new", "clear"} /\ last.err = "none") =>
          \A item \in Items : Answer(last.obj, item).ret = FALSE

\* maycontain has returned TRUE for an item that was never added: all its
\* bits were set by another item
C17_Witness ==
    /\ last.op = "maycontain"
    /\ last.ret = TRUE
    /\ last.item \notin added[last.obj]
    /\ \A i \in 1 .. flt[last.obj].k : HashBit(last.obj, i, last.item)

\* the array o.add (item) leaves when it starts from the words w
Added(o, w, item) == addLoop(w, flt[o].funcs, 1, item).bits

\* C18: what add does to the bit array.  After o.add (item) a bit of o's
\* array is 1 exactly when it was 1 before or it is one of the positions
\* f_1 (item) .. f_k (item), bit 31 of a word included, and the array has
\* as many words as before; adding the item once more changes no bit; and
\* adding item and any other item y gives the same array in either order.
C18_AddSetsExactly ==
    [][\A o \in Obj :
          (last'.op = "add" /\ last'.obj = o /\ last'.err = "none") =>
              LET item == last'.item
                  new == heap'[flt'[o].bits]
              IN  /\ Len(new) = Len(Words(o))
                  /\ \A i \in 1 .. Len(new), j \in BitPos :
                        (new[i][j] = 1) <=>
                            \/ BitIsSet(o, i, j)
                            \/ \E t \in 1 .. flt[o].k :
                                  f(flt[o].funcs[t], item)
                                      = (i - 1) * WordBits + j
                  /\ Added(o, new, item) = new
                  /\ \A y \in Items :
                        Added(o, Added(o, Words(o), item), y)
                            = Added(o, Added(o, Words(o), y), item)]_vars

\* add ('fw') has set bit 31 of a word and kept a bit that add ('d') had set
C18_Witness ==
    /\ last.op = "add"
    /\ last.item = "fw"
    /\ flt[last.obj].k = 2
    /\ BitIsSet(last.obj, Len(Words(last.obj)), 31)
    /\ "d" \in added[last.obj]
    /\ HashBit(last.obj, 2, "d")
    /\ f(flt[last.obj].funcs[2], "d") # f(flt[last.obj].funcs[2], "fw")

\* C19: add is not atomic.  The writer sets the k bits one turn at a time
\* and increments n last: while it is inside add, n does not count the add
\* in progress.  A maycontain (x) that the reader begins after the writer's
\* add (x) has returned never returns FALSE.  (That a maycontain (x) begun
\* between two bit writes of add (x) can return FALSE is the state
\* C19_Witness, which is reachable.)
C19_AddNotAtomic ==
    /\ Live("F") =>
          flt["F"].n = calls - (IF wpc = "loop" THEN 1 ELSE 0)
    /\ (rpc = "done" /\ rafter) => rret = TRUE

\* k = 2; the reader began maycontain (x) when add (x) had made one bit
\* write, and has returned FALSE before add (x) made its second one
C19_Witness ==
    /\ Live("F")
    /\ flt["F"].k = 2
    /\ wpc = "loop"
    /\ witem = ritem
    /\ wi = 2
    /\ rmid = 1
    /\ rpc = "done"
    /\ rret = FALSE
    /\ ~rafter
    /\ HashBit("F", 1, ritem)
    /\ ~HashBit("F", 2, ritem)

\* the integer digest[i] + digest[i+1] * radix + digest[i+2] * radix^2 + ...,
\* not reduced, as a Python integer
RECURSIVE Horner(_, _, _)
Horner(digest, radix, i) ==
    IF i > Len(digest) THEN <<>>
    ELSE CHOOSE r \in {BigAdd(BigFromInt(digest[i]), BigMul(h, radix)) :
                          h \in {Horner(digest, radix, i + 1)}} : TRUE

\* C20: digest folding.  For the m and the 20-byte digest of a call, the
\* value returned is (b_0 + b_1 * 8 + ... + b_19 * 8^19) mod m, the sum
\* being taken over the unbounded integers and reduced once; and inside
\* the loop, after j bytes, v is the sum of the first j terms mod m.
C20_DigestFolding ==
    /\ hpc = "done" =>
          /\ Len(hdigest) = DigestLen
          /\ hret = BigMod(Horner(hdigest, 8, 1), hm)
    /\ hpc = "loop" =>
          hv = BigMod(Horner(SubSeq(hdigest, 1, hi - 1), 8, 1), hm)

\* a call for m = 1000 has returned a value other than the one the radix 256
\* would give, on a digest with bytes above 7
C20_Witness ==
    /\ hpc = "done"
    /\ hm = 1000
    /\ \E i \in 1 .. Len(hdigest) : hdigest[i] > 7
    /\ hret = BigMod(Horner(hdigest, 8, 1), hm)
    /\ hret # BigMod(Horner(hdigest, 256, 1), hm)

====
